---- MODULE Spec2Model ----
(***************************************************************************)
(* The PDF report path of app.py: the download_pdf request handler and the *)
(* create_report_pdf renderer it calls (markdown line loop, table          *)
(* accumulation, inline emphasis, default disclaimer, fallback document).  *)
(*                                                                         *)
(* Text is a sequence of symbols.  A symbol is one character ("#", "*",    *)
(* "|", " ", "a", ...), the line break "\n", one of the markup tags the    *)
(* code writes ("<b>", "</b>", "<i>", "</i>"), or one of a few words that  *)
(* the code only ever treats as a unit ("Disclaimer", "Asvikaran" for the  *)
(* Devanagari marker, and the fixed strings of the header and the          *)
(* fallback document).                                                     *)
(***************************************************************************)
EXTENDS Integers, Sequences, FiniteSets, TLC

VARIABLES calls, registered

vars == <<calls, registered>>

(* ----------------------------- bounds ---------------------------------- *)

\* lines of a markdown text in Spec and SpecCall
MaxLines == 3
\* lines of a markdown text in SpecTable
MaxTableLines == 4
\* symbols of the one-line texts of SpecText
MaxTextLen == 4

\* lines per markdown text of each of two concurrent calls
MaxPairLines == 2

(* --------------------------- text helpers ------------------------------ *)

Whitespace == {" ", "\n"}

RECURSIVE LStrip(_)
LStrip(s) ==
    IF s # <<>> /\ Head(s) \in Whitespace THEN LStrip(Tail(s)) ELSE s

RECURSIVE RStrip(_)
RStrip(s) ==
    IF s # <<>> /\ s[Len(s)] \in Whitespace
    THEN RStrip(SubSeq(s, 1, Len(s) - 1))
    ELSE s

\* str.strip()
Strip(s) == RStrip(LStrip(s))

\* str.startswith(p)
StartsWith(s, p) == Len(s) >= Len(p) /\ SubSeq(s, 1, Len(p)) = p

\* str.endswith(p)
EndsWith(s, p) ==
    Len(s) >= Len(p) /\ SubSeq(s, Len(s) - Len(p) + 1, Len(s)) = p

Min(S) == CHOOSE x \in S : \A y \in S : x <= y

\* str.split(sep) for a one-symbol separator
RECURSIVE Split(_, _)
Split(s, sep) ==
    LET at == {k \in 1..Len(s) : s[k] = sep}
    IN  IF at = {} THEN <<s>>
        ELSE <<SubSeq(s, 1, Min(at) - 1)>>
                 \o Split(SubSeq(s, Min(at) + 1, Len(s)), sep)

\* sep.join(parts), sep a text
RECURSIVE Join(_, _)
Join(parts, sep) ==
    IF parts = <<>> THEN <<>>
    ELSE IF Len(parts) = 1 THEN parts[1]
    ELSE parts[1] \o sep \o Join(Tail(parts), sep)

\* str.replace(c, '') for every symbol c of drop
RECURSIVE RemoveAll(_, _)
RemoveAll(s, drop) ==
    IF s = <<>> THEN <<>>
    ELSE IF Head(s) \in drop THEN RemoveAll(Tail(s), drop)
    ELSE <<Head(s)>> \o RemoveAll(Tail(s), drop)

\* 'word' in text
Contains(s, w) == \E k \in 1..Len(s) : s[k] = w

(* ------------------------- inline emphasis ----------------------------- *)

\* a "**" starts at p
DoubleAt(s, p) == p >= 1 /\ p + 1 <= Len(s) /\ s[p] = "*" /\ s[p + 1] = "*"

\* re.sub(r'\*\*(.*?)\*\*', r'<b>\1</b>', s): leftmost match, shortest group
RECURSIVE SubBold(_)
SubBold(s) ==
    LET opens == {p \in 1..Len(s) :
                     DoubleAt(s, p) /\ \E q \in (p + 2)..Len(s) : DoubleAt(s, q)}
    IN  IF opens = {} THEN s
        ELSE LET p == Min(opens)
                 q == Min({r \in (p + 2)..Len(s) : DoubleAt(s, r)})
             IN  SubSeq(s, 1, p - 1) \o <<"<b>">> \o SubSeq(s, p + 2, q - 1)
                     \o <<"</b>">> \o SubBold(SubSeq(s, q + 2, Len(s)))

\* re.sub(r'\*(.*?)\*', r'<i>\1</i>', s)
RECURSIVE SubItalic(_)
SubItalic(s) ==
    LET opens == {p \in 1..Len(s) :
                     s[p] = "*" /\ \E q \in (p + 1)..Len(s) : s[q] = "*"}
    IN  IF opens = {} THEN s
        ELSE LET p == Min(opens)
                 q == Min({r \in (p + 1)..Len(s) : s[r] = "*"})
             IN  SubSeq(s, 1, p - 1) \o <<"<i>">> \o SubSeq(s, p + 1, q - 1)
                     \o <<"</i>">> \o SubItalic(SubSeq(s, q + 1, Len(s)))

\* the two passes, bold first
Emphasis(s) == SubItalic(SubBold(s))

(* ------------------------------ blocks --------------------------------- *)

\* Paragraph(text, style, bulletText=...)
Para(style, text, bullet) ==
    [kind |-> "Paragraph", style |-> style, text |-> text,
     bullet |-> bullet, rows |-> <<>>]

\* Spacer(1, h)
SpacerBlock ==
    [kind |-> "Spacer", style |-> "", text |-> <<>>, bullet |-> <<>>,
     rows |-> <<>>]

\* Table(table_data, colWidths): rows of cell texts, the first the header
TableBlock(rows) ==
    [kind |-> "Table", style |-> "", text |-> <<>>, bullet |-> <<>>,
     rows |-> rows]

(* ------------------------- line classification ------------------------- *)

\* line.startswith('|') and line.endswith('|')
IsTableLine(line) == StartsWith(line, <<"|">>) /\ EndsWith(line, <<"|">>)

\* [cell.strip() for cell in line.split('|')[1:-1]]
Cells(line) ==
    LET parts == Split(line, "|")
    IN  [k \in 1..(Len(parts) - 2) |-> Strip(parts[k + 1])]

\* all(c.strip().replace('-','').replace(':','').replace(' ','') == '' ...)
IsSeparatorRow(cells) ==
    \A k \in 1..Len(cells) : RemoveAll(Strip(cells[k]), {"-", ":", " "}) = <<>>

\* the texts of the cell Paragraphs of one row
CellParagraphs(cells) == [k \in 1..Len(cells) |-> Emphasis(cells[k])]

Digits == {"1", "3"}

\* the length of the leading run of digits
RECURSIVE DigitRun(_)
DigitRun(s) ==
    IF s # <<>> /\ Head(s) \in Digits THEN 1 + DigitRun(Tail(s)) ELSE 0

\* re.match(r'^\d+\. ', line)
IsNumbered(line) ==
    LET n == DigitRun(line)
    IN  n >= 1 /\ Len(line) >= n + 2 /\ line[n + 1] = "." /\ line[n + 2] = " "

\* line.startswith('Disclaimer:') or line.startswith('<Devanagari marker>:')
IsDisclaimerLine(line) ==
    \/ StartsWith(line, <<"Disclaimer", ":">>)
    \/ StartsWith(line, <<"Asvikaran", ":">>)

Rest(line, n) == SubSeq(line, n + 1, Len(line))

\* the heading, list, disclaimer and body branches of the loop: the blocks
\* appended for a stripped, non-blank, non-table line
ClassifyBlock(line) ==
    IF StartsWith(line, <<"#", " ">>) THEN
        <<Para("CustomH1", <<"<b>">> \o Strip(Rest(line, 2)) \o <<"</b>">>, <<>>)>>
    ELSE IF StartsWith(line, <<"#", "#", " ">>) THEN
        <<Para("CustomH2", <<"<b>">> \o Strip(Rest(line, 3)) \o <<"</b>">>, <<>>)>>
    ELSE IF StartsWith(line, <<"#", "#", "#", " ">>) THEN
        <<Para("CustomH3", <<"<b>">> \o Strip(Rest(line, 4)) \o <<"</b>">>, <<>>)>>
    ELSE IF StartsWith(line, <<"*", " ">>) \/ StartsWith(line, <<"-", " ">>) THEN
        <<Para("CustomBullet", Emphasis(Strip(Rest(line, 2))), <<"bullet">>)>>
    ELSE IF IsNumbered(line) THEN
        <<Para("CustomNumber",
               Emphasis(Strip(Rest(line, DigitRun(line) + 2))),
               Split(line, ".")[1] \o <<".">>)>>
    ELSE IF IsDisclaimerLine(line) THEN
        <<Para("CustomDisclaimer", <<"<i>">> \o line \o <<"</i>">>, <<>>)>>
    ELSE IF Strip(Emphasis(line)) # <<>> THEN
        <<Para("CustomBody", Emphasis(line), <<>>)>>
    ELSE <<>>

(* -------------------------- table accumulator -------------------------- *)

\* the table-row branch of the loop
TableRowStep(f, line) ==
    LET buf == IF f.in_table THEN f.current_table_data ELSE <<>>
        cells == Cells(line)
    IN  [f EXCEPT !.in_table = TRUE,
                  !.current_table_data =
                      IF IsSeparatorRow(cells) THEN buf
                      ELSE Append(buf, CellParagraphs(cells))]

\* some row has another number of cells than the header row
Ragged(data) == \E r \in 1..Len(data) : Len(data[r]) # Len(data[1])

\* [Paragraph(f"<b>{cell.text}</b>", header_style) for cell in header_data]
StyledHeader(row) == [k \in 1..Len(row) |-> <<"<b>">> \o row[k] \o <<"</b>">>]

\* the except branch: one body Paragraph per buffered row
DegradedRows(data) ==
    [r \in 1..Len(data) |-> Para("CustomBody", Join(data[r], <<" ", "|", " ">>), <<>>)]

\* the end-of-table branch without its try: the error of Table(...) goes to
\* the outer except
EndTable_NoTry(f, tableRaises) ==
    IF tableRaises /\ f.current_table_data # <<>>
    THEN [f EXCEPT !.pc = "fallback", !.e = "TableError", !.in_table = FALSE]
    ELSE [f EXCEPT !.in_table = FALSE,
                   !.flowables = @ \o (IF f.current_table_data = <<>> THEN <<>>
                                       ELSE <<TableBlock(<<StyledHeader(f.current_table_data[1])>>
                                                            \o Tail(f.current_table_data)),
                                              SpacerBlock>>),
                   !.current_table_data = <<>>]

\* the end-of-table branch; tableRaises: Table(...) raised in the try
EndTable(f, tableRaises) ==
    LET data == f.current_table_data
        out == IF data = <<>> THEN <<>>
               ELSE IF tableRaises THEN DegradedRows(data)
               ELSE <<TableBlock(<<StyledHeader(data[1])>> \o Tail(data)),
                      SpacerBlock>>
    IN  [f EXCEPT !.in_table = FALSE,
                  !.flowables = @ \o out,
                  !.current_table_data = <<>>]

\* one iteration of the for loop over lines
LoopBody(f, tableRaises) ==
    LET line == Strip(f.lines[f.i])
        g == IF line = <<>> THEN f
             ELSE IF IsTableLine(line) THEN TableRowStep(f, line)
             ELSE IF f.in_table THEN EndTable(f, tableRaises)
             ELSE [f EXCEPT !.flowables = @ \o ClassifyBlock(line)]
    IN  [g EXCEPT !.i = @ + 1,
                  !.produced = Append(@,
                      [line |-> line,
                       in_table |-> f.in_table,
                       buffered |-> f.current_table_data,
                       table_error |-> tableRaises,
                       blocks |-> SubSeq(g.flowables, Len(f.flowables) + 1,
                                         Len(g.flowables))])]

(* --------------------------- font registry ----------------------------- *)

\* the registerFont calls of the import-time try block, in order
RegistrationSequence ==
    <<"NotoSansDevanagari", "NotoSansDevanagari-Bold", "NotoSansDevanagari-Italic">>

\* the try block stops at the first registerFont that raises
RegistrationOutcomes ==
    {{RegistrationSequence[k] : k \in 1..n} : n \in 0..Len(RegistrationSequence)}

\* the if language == 'hindi' block of create_report_pdf
BaseFontName(language, fonts) ==
    IF language = "hindi"
    THEN IF "NotoSansDevanagari" \in fonts THEN "NotoSansDevanagari"
         ELSE "Helvetica"
    ELSE "Helvetica"

(* ------------------------------ requests ------------------------------- *)

\* a JSON value of the request body: null (or the key missing), a number,
\* or a string (its text)
JsonNull == [type |-> "null", num |-> 0, text |-> <<>>]
JsonNumber(n) == [type |-> "number", num |-> n, text |-> <<>>]
JsonString(t) == [type |-> "str", num |-> 0, text |-> t]

\* Python truthiness of such a value
Truthy(v) ==
    CASE v.type = "null" -> FALSE
      [] v.type = "number" -> v.num # 0
      [] OTHER -> v.text # <<>>

\* jsonify({"error": ...}), status / send_file(pdf_buffer, ...)
Response(status, error, body) ==
    [status |-> status, error |-> error, body |-> body]

NoResponse == Response(0, "", <<>>)

Calls == {1, 2}

\* the locals of one download_pdf request and of its create_report_pdf call
Frame(md, name, location, language) ==
    [pc |-> "request", caller |-> "download_pdf",
     md |-> md, name |-> name, location |-> location,
     language |-> language, buffer |-> <<>>, base_font_name |-> "",
     flowables |-> <<>>, lines |-> <<>>, i |-> 0,
     current_table_data |-> <<>>, in_table |-> FALSE, produced |-> <<>>,
     e |-> "", fallback_error |-> "", error_flowables |-> <<>>,
     builds |-> <<>>, uncaught |-> FALSE, response |-> NoResponse]

\* no request
Idle == [Frame(JsonNull, <<>>, <<>>, "english") EXCEPT !.pc = "off"]

(* ------------------------------ download_pdf --------------------------- *)

\* the guard without its isinstance test
InvalidMarkdown_NoTypeCheck(md) == ~Truthy(md)

\* if not markdown_text or not isinstance(markdown_text, str)
InvalidMarkdown(md) == ~Truthy(md) \/ md.type # "str"

\* download_pdf up to the call of create_report_pdf
DownloadPdfStep(f) ==
    IF InvalidMarkdown(f.md)
    THEN [f EXCEPT !.pc = "done",
                   !.response = Response(400, "Invalid or missing markdown_text", <<>>)]
    ELSE [f EXCEPT !.pc = "enter"]

\* download_pdf after create_report_pdf returned (or raised)
RespondStep(f) ==
    IF f.uncaught
    THEN [f EXCEPT !.pc = "done",
                   !.response = Response(500, "Failed to generate PDF", <<>>)]
    ELSE [f EXCEPT !.pc = "done", !.response = Response(200, "", f.buffer)]

(* --------------------------- create_report_pdf ------------------------- *)

\* an exception raised in the outer try: caught by except Exception as e
PrimaryError(f, e) == [f EXCEPT !.pc = "fallback", !.e = e]

\* buffer = io.BytesIO() and the guard on empty text
EnterStep(f) ==
    LET g == [f EXCEPT !.buffer = <<>>]
    IN  IF ~Truthy(f.md) THEN PrimaryError(g, "ValueError")
        ELSE IF f.md.type # "str" THEN PrimaryError(g, "AttributeError")
        ELSE IF Strip(f.md.text) = <<>> THEN PrimaryError(g, "ValueError")
        ELSE [g EXCEPT !.pc = "setup"]

\* the three header Paragraphs and the Spacer
HeaderBlocks(name, location, language) ==
    IF language = "hindi"
    THEN <<Para("CustomH1", <<"<b>", "title-hi", "</b>">>, <<>>),
           Para("CustomH3", <<"<b>", "prepared-hi">> \o name \o <<"</b>">>, <<>>),
           Para("CustomH3", <<"<b>", "location-hi">> \o location \o <<"</b>">>, <<>>),
           SpacerBlock>>
    ELSE <<Para("CustomH1", <<"<b>", "Professional Land Use Report", "</b>">>, <<>>),
           Para("CustomH3", <<"<b>", "Prepared for: ">> \o name \o <<"</b>">>, <<>>),
           Para("CustomH3", <<"<b>", "Location: ">> \o location \o <<"</b>">>, <<>>),
           SpacerBlock>>

\* document template, styles, base font, header, split into lines
SetupStep(f, fonts) ==
    [f EXCEPT !.pc = "loop",
              !.base_font_name = BaseFontName(f.language, fonts),
              !.flowables = HeaderBlocks(f.name, f.location, f.language),
              !.lines = Split(f.md.text, "\n"),
              !.i = 1,
              !.current_table_data = <<>>,
              !.in_table = FALSE]

\* 'Disclaimer' in str(flowable) or '<Devanagari marker>' in str(flowable):
\* the string of a flowable shows its text (a Table's, its cells' texts)
HasDisclaimerWord(t) == Contains(t, "Disclaimer") \/ Contains(t, "Asvikaran")

MentionsDisclaimer(b) ==
    \/ HasDisclaimerWord(b.text)
    \/ \E r \in 1..Len(b.rows) : \E k \in 1..Len(b.rows[r]) :
           HasDisclaimerWord(b.rows[r][k])

DefaultDisclaimer(language) ==
    IF language = "hindi"
    THEN Para("CustomDisclaimer", <<"<i>", "Asvikaran", ":", "default-hi", "</i>">>, <<>>)
    ELSE Para("CustomDisclaimer", <<"<i>", "Disclaimer", ":", "default-en", "</i>">>, <<>>)

\* the final-disclaimer block after the loop
AddDisclaimer(f) ==
    IF \E k \in 1..Len(f.flowables) : MentionsDisclaimer(f.flowables[k])
    THEN [f EXCEPT !.pc = "build"]
    ELSE [f EXCEPT !.pc = "build",
                   !.flowables = @ \o <<SpacerBlock, DefaultDisclaimer(f.language)>>]

\* doc.build(flowables) returned
BuildStep(f) ==
    [f EXCEPT !.pc = "return",
              !.builds = Append(@, "primary"),
              !.buffer = @ \o <<"primary_pdf">>]

\* doc.build(flowables) raised, after writing partial output or none
BuildError(f, partial) ==
    PrimaryError([f EXCEPT !.builds = Append(@, "primary"),
                           !.buffer = @ \o (IF partial THEN <<"partial">> ELSE <<>>)],
                 "LayoutError")

\* error_flowables
ErrorFlowables(f) ==
    <<Para("ErrorTitle", <<"PDF Generation Failed">>, <<>>),
      Para("ErrorNormal", <<"explanation">>, <<>>),
      Para("Heading2", <<"Error Details:">>, <<>>),
      Para("ErrorNormal", <<f.e>>, <<>>),
      Para("Heading2", <<"Debug Info:">>, <<>>),
      Para("ErrorNormal",
           <<"Name: ">> \o f.name \o <<", Location: ">> \o f.location
               \o <<", Language: ", f.language>>, <<>>),
      Para("Heading3", <<"Full Traceback:">>, <<>>),
      Para("ErrorCode", <<"Traceback", f.e>>, <<>>)>>

\* the handler keeps writing to the buffer of the primary path
FreshBuffer_Reuse(f) == f

\* buffer.close(); buffer = io.BytesIO()
FreshBuffer(f) == [f EXCEPT !.buffer = <<>>]

\* the inner try: the fallback document is built
FallbackStep(f) ==
    [FreshBuffer(f) EXCEPT !.pc = "return",
                           !.error_flowables = ErrorFlowables(f),
                           !.builds = Append(@, "fallback"),
                           !.buffer = @ \o <<"fallback_pdf">>]

\* the inner try without its except clause: the error leaves the function
OnFallbackError_Reraise(f) ==
    [f EXCEPT !.pc = "return", !.fallback_error = "FallbackError",
              !.uncaught = TRUE]

\* except Exception as fallback_error: the placeholder bytes
OnFallbackError(f) ==
    [FreshBuffer(f) EXCEPT !.pc = "return",
                           !.fallback_error = "FallbackError",
                           !.buffer = @ \o <<"placeholder">>]

\* the inner try raised, in doc.build (inBuild) or before it
FallbackError(f, inBuild) ==
    LET g == FreshBuffer(f)
    IN  OnFallbackError(
            IF inBuild
            THEN [g EXCEPT !.error_flowables = ErrorFlowables(f),
                           !.builds = Append(@, "fallback"),
                           !.buffer = @ \o <<"partial">>]
            ELSE g)

(* ------------------------------- actions ------------------------------- *)

\* the table buffer and the in-table flag as module globals: a step of one
\* call writes them for every call
Step_SharedTable(c, g) ==
    /\ calls' = [d \in Calls |->
                    IF d = c THEN g
                    ELSE [calls[d] EXCEPT !.current_table_data = g.current_table_data,
                                          !.in_table = g.in_table]]
    /\ UNCHANGED registered

\* one step of call c: its locals change, nothing else does
Step(c, g) == calls' = [calls EXCEPT ![c] = g] /\ UNCHANGED registered

DownloadPdf(c) ==
    /\ calls[c].pc = "request"
    /\ Step(c, DownloadPdfStep(calls[c]))

Enter(c) ==
    /\ calls[c].pc = "enter"
    /\ Step(c, EnterStep(calls[c]))

Setup(c) ==
    /\ calls[c].pc = "setup"
    /\ Step(c, SetupStep(calls[c], registered))

\* this iteration ends a table whose rows differ in length: Table(...) may
\* raise on it (reportlab rejects or pads short rows, by configuration)
EndsRaggedTable(f) ==
    LET line == Strip(f.lines[f.i])
    IN  /\ line # <<>>
        /\ ~IsTableLine(line)
        /\ f.in_table
        /\ Ragged(f.current_table_data)

Loop(c) ==
    /\ calls[c].pc = "loop"
    /\ calls[c].i <= Len(calls[c].lines)
    /\ \E tableRaises \in BOOLEAN :
           /\ tableRaises => EndsRaggedTable(calls[c])
           /\ Step(c, LoopBody(calls[c], tableRaises))

Disclaimer(c) ==
    /\ calls[c].pc = "loop"
    /\ calls[c].i > Len(calls[c].lines)
    /\ Step(c, AddDisclaimer(calls[c]))

Build(c) ==
    /\ calls[c].pc = "build"
    /\ Step(c, BuildStep(calls[c]))

\* the layout engine fails
BuildFails(c) ==
    /\ calls[c].pc = "build"
    /\ \E partial \in BOOLEAN : Step(c, BuildError(calls[c], partial))

\* style resolution or block assembly fails
AssemblyFails(c) ==
    /\ calls[c].pc \in {"setup", "loop"}
    /\ Step(c, PrimaryError(calls[c],
                   IF calls[c].pc = "setup" THEN "SetupError" ELSE "ParagraphError"))

Fallback(c) ==
    /\ calls[c].pc = "fallback"
    /\ Step(c, FallbackStep(calls[c]))

FallbackFails(c) ==
    /\ calls[c].pc = "fallback"
    /\ \E inBuild \in BOOLEAN : Step(c, FallbackError(calls[c], inBuild))

Respond(c) ==
    /\ calls[c].pc = "return"
    /\ calls[c].caller = "download_pdf"
    /\ Step(c, RespondStep(calls[c]))

Next ==
    \E c \in Calls :
        \/ DownloadPdf(c)
        \/ Enter(c)
        \/ Setup(c)
        \/ Loop(c)
        \/ Disclaimer(c)
        \/ Build(c)
        \/ BuildFails(c)
        \/ AssemblyFails(c)
        \/ Fallback(c)
        \/ FallbackFails(c)
        \/ Respond(c)

(* ------------------------------- inputs -------------------------------- *)

\* the markdown texts of up to n lines drawn from a set of lines
Texts(lineSet, n) ==
    {Join(d, <<"\n">>) : d \in UNION {[1..k -> lineSet] : k \in 1..n}}

\* markdown_text values that are not a non-empty string
InvalidValues == {JsonNull, JsonNumber(0), JsonNumber(5), JsonString(<<>>)}

Names == {<<"U">>, <<"Disclaimer", "Co">>}

Languages == {"english", "hindi"}

\* one request; the other call slot stays unused
OneRequest(mds, names, languages, fontSets) ==
    /\ registered \in fontSets
    /\ \E md \in mds, name \in names, language \in languages :
           calls = [c \in Calls |->
                       IF c = 1 THEN Frame(md, name, <<"L">>, language) ELSE Idle]

MainLines ==
    {<<"#", "#", " ", "Disclaimer">>,
     <<"|", "a", "|", "b", "|">>,
     <<"Disclaimer", ":", "x">>,
     <<"x">>,
     <<" ">>}

Init ==
    OneRequest(InvalidValues \cup {JsonString(t) : t \in Texts(MainLines, MaxLines)},
               Names, Languages, RegistrationOutcomes)

Spec == Init /\ [][Next]_vars

\* create_report_pdf called with the arguments as given, by download_pdf or
\* by any other caller of the function
InitCall ==
    /\ registered \in {{}, {RegistrationSequence[k] : k \in 1..Len(RegistrationSequence)}}
    /\ \E md \in InvalidValues
                  \cup {JsonString(t) : t \in Texts(MainLines, MaxLines)},
          name \in Names, language \in Languages, caller \in {"download_pdf", "direct"} :
           calls = [c \in Calls |->
                       IF c = 1
                       THEN [Frame(md, name, <<"L">>, language) EXCEPT
                                !.caller = caller,
                                !.pc = IF caller = "direct" THEN "enter" ELSE "request"]
                       ELSE Idle]

SpecCall == InitCall /\ [][Next]_vars

\* tables: a two-cell row, a separator row, a one-cell row, a body line, a
\* heading
TableLines ==
    {<<"|", "a", "|", "b", "|">>,
     <<"|", "-", "|", "-", "|">>,
     <<"|", "c", "|">>,
     <<"x">>,
     <<"#", " ", "T">>}

InitTable ==
    OneRequest(InvalidValues
                   \cup {JsonString(t) : t \in Texts(TableLines, MaxTableLines)},
               {<<"U">>}, {"english"}, {{}})

SpecTable == InitTable /\ [][Next]_vars

\* one-line texts over a letter, the asterisk and the space
TextLines ==
    UNION {[1..n -> {"a", "*", " "}] : n \in 1..MaxTextLen}

InitText ==
    OneRequest(InvalidValues \cup {JsonString(t) : t \in TextLines},
               {<<"U">>}, {"english"}, {{}})

SpecText == InitText /\ [][Next]_vars

\* two requests in flight at once, each with its own text, name and
\* language: a table row of its own, a body line
PairLines(c) ==
    IF c = 1 THEN {<<"|", "a", "|">>, <<"x">>} ELSE {<<"|", "b", "|">>, <<"x">>}

PairName(c) == IF c = 1 THEN <<"U">> ELSE <<"V">>

PairLanguage(c) == IF c = 1 THEN "english" ELSE "hindi"

PairValues(c) ==
    {JsonNull} \cup {JsonString(t) : t \in Texts(PairLines(c), MaxPairLines)}

InitTwo ==
    /\ registered = {RegistrationSequence[k] : k \in 1..Len(RegistrationSequence)}
    /\ \E m1 \in PairValues(1), m2 \in PairValues(2) :
           calls = [c \in Calls |->
                       Frame(IF c = 1 THEN m1 ELSE m2,
                             PairName(c), <<"L">>, PairLanguage(c))]

SpecTwo == InitTwo /\ [][Next]_vars

\* emphasis in every kind of line: a heading, a disclaimer, a bullet, a
\* numbered item and a body line, each with a '**x**' or a '*x*' run
EmphLines ==
    {<<"#", " ", "*", "*", "x", "*", "*">>,
     <<"Disclaimer", ":", "*", "x", "*">>,
     <<"*", " ", "*", "*", "x", "*", "*">>,
     <<"1", ".", " ", "*", "x", "*">>,
     <<"*", "*", "x", "*", "*", " ", "*", "x", "*">>}

InitEmph ==
    OneRequest(InvalidValues \cup {JsonString(t) : t \in Texts(EmphLines, MaxLines)},
               {<<"U">>}, {"english"}, {{}})

SpecEmph == InitEmph /\ [][Next]_vars

(* ------------------------------- claims -------------------------------- *)

\* the three byte sequences create_report_pdf can hand back
Outcomes == {<<"primary_pdf">>, <<"fallback_pdf">>, <<"placeholder">>}

\* C1: every call of create_report_pdf returns a non-empty buffer that is
\* exactly the primary document, the fallback document or the placeholder,
\* and no exception leaves the function, whatever fails on either path.
C1_AlwaysReturnsBytes ==
    \A c \in Calls :
        /\ ~calls[c].uncaught
        /\ calls[c].pc = "return" =>
               /\ Len(calls[c].buffer) > 0
               /\ calls[c].buffer \in Outcomes
        /\ (calls[c].pc = "done" /\ calls[c].response.status # 400) =>
               /\ calls[c].response.status = 200
               /\ calls[c].response.body \in Outcomes

\* create_report_pdf was called with None and the fallback build failed:
\* the placeholder is returned
C1_Witness ==
    \E c \in Calls :
        /\ calls[c].pc = "return"
        /\ calls[c].md = JsonNull
        /\ calls[c].e = "ValueError"
        /\ calls[c].builds = <<"fallback">>
        /\ calls[c].buffer = <<"placeholder">>

\* the values the claim C5 names: missing or None, a non-string, the empty
\* string
EmptyOrNonString(md) == md.type # "str" \/ md.text = <<>>

\* C5: a request whose markdown_text is missing, None, the empty string or
\* not a string is answered with the validation error (400) before any
\* document is built, and doc.build is called on neither path.
C5_InvalidInputRejected ==
    \A c \in Calls :
        (calls[c].caller = "download_pdf" /\ calls[c].pc # "off"
             /\ EmptyOrNonString(calls[c].md)) =>
            /\ calls[c].pc \in {"request", "done"}
            /\ calls[c].flowables = <<>>
            /\ calls[c].error_flowables = <<>>
            /\ calls[c].builds = <<>>
            /\ calls[c].pc = "done" =>
                   /\ calls[c].response.status = 400
                   /\ calls[c].response.body = <<>>

\* a truthy non-string value was rejected
C5_Witness ==
    \E c \in Calls :
        /\ calls[c].pc = "done"
        /\ calls[c].md = JsonNumber(5)
        /\ calls[c].response.status = 400

\* the fallback document of a call: title, explanation, error message,
\* debug context and trace, written alone into the buffer
IsFallbackDocument(f) ==
    /\ f.buffer = <<"fallback_pdf">>
    /\ Len(f.error_flowables) = 8
    /\ f.error_flowables[1].text = <<"PDF Generation Failed">>
    /\ f.error_flowables[2].text = <<"explanation">>
    /\ f.error_flowables[4].text = <<f.e>>
    /\ f.error_flowables[6].text =
           <<"Name: ">> \o f.name \o <<", Location: ">> \o f.location
               \o <<", Language: ", f.language>>
    /\ f.error_flowables[8].text = <<"Traceback", f.e>>

InputLines(f) ==
    LET ls == Split(f.md.text, "\n") IN [k \in 1..Len(ls) |-> Strip(ls[k])]

\* the blocks appended by the iterations of the loop, in order
RECURSIVE BlocksOf(_)
BlocksOf(produced) ==
    IF produced = <<>> THEN <<>>
    ELSE produced[1].blocks \o BlocksOf(Tail(produced))

\* a Disclaimer block was produced from the input
HasInputDisclaimer(f) ==
    \E k \in 1..Len(BlocksOf(f.produced)) :
        BlocksOf(f.produced)[k].style = "CustomDisclaimer"

\* the locale default was appended after the loop
DefaultAppended(f) ==
    /\ Len(f.flowables) = Len(HeaderBlocks(f.name, f.location, f.language))
                              + Len(BlocksOf(f.produced)) + 2
    /\ f.flowables[Len(f.flowables)] = DefaultDisclaimer(f.language)

\* C4 as stated: if no input line starts with the disclaimer marker, the
\* last block handed to the layout engine is the locale-default Disclaimer,
\* whatever the other lines, the name and the location contain; and the
\* default is appended exactly when no Disclaimer block came from the input.
C4_DefaultDisclaimerLast ==
    \A c \in Calls :
        calls[c].pc = "build" =>
            /\ (\A k \in 1..Len(InputLines(calls[c])) :
                    ~IsDisclaimerLine(InputLines(calls[c])[k]))
                   => calls[c].flowables[Len(calls[c].flowables)]
                          = DefaultDisclaimer(calls[c].language)
            /\ DefaultAppended(calls[c]) <=> ~HasInputDisclaimer(calls[c])

\* the last element of a non-empty sequence
Last(q) == q[Len(q)]

\* C2 as stated: a non-blank non-table line that arrives while a table is
\* open ends the table and is then classified and emitted as its own block,
\* so every non-blank non-table line yields exactly one block of its own.
C2_TriggerLineEmitted ==
    \A c \in Calls :
        \A j \in 1..Len(calls[c].produced) :
            LET p == calls[c].produced[j]
            IN  (p.line # <<>> /\ ~IsTableLine(p.line)) =>
                    /\ p.blocks # <<>>
                    /\ <<Last(p.blocks)>> = ClassifyBlock(p.line)

NonBlank(line) == line # <<>>

\* C3 as stated: when the input ends with a table row and the buffer is not
\* empty, the buffered table is finalized at end of input: a Table block
\* with the buffered rows is in the document before the disclaimer check
\* and before the layout engine is called.
C3_TableFinalizedAtEnd ==
    \A c \in Calls :
        LET f == calls[c]
            nb == SelectSeq(InputLines(f), NonBlank)
        IN  (/\ f.pc \in {"loop", "build"}
             /\ f.i > Len(f.lines)
             /\ nb # <<>>
             /\ IsTableLine(Last(nb))
             /\ f.current_table_data # <<>>) =>
                \E k \in 1..Len(f.flowables) :
                    /\ f.flowables[k].kind = "Table"
                    /\ f.flowables[k].rows =
                           <<StyledHeader(f.current_table_data[1])>>
                               \o Tail(f.current_table_data)

\* a table row made of '|', '-', ':' and spaces only: a separator row
DashOnly(line) == \A k \in 1..Len(line) : line[k] \in {"|", "-", ":", " "}

NotDashOnly(line) == ~DashOnly(line)

\* the rows of cell texts of the lines a..b of a sequence of table lines,
\* separator rows left out
DataRows(nb, a, b) ==
    LET kept == SelectSeq(SubSeq(nb, a, b), NotDashOnly)
    IN  [r \in 1..Len(kept) |-> CellParagraphs(Cells(kept[r]))]

\* a..b is a maximal run of table lines among the non-blank lines nb
IsTableRun(nb, a, b) ==
    /\ a <= b
    /\ \A k \in a..b : IsTableLine(nb[k])
    /\ a = 1 \/ ~IsTableLine(nb[a - 1])
    /\ b = Len(nb) \/ ~IsTableLine(nb[b + 1])

\* such a run is a well-formed table with one separator row
WellFormedRun(nb, a, b) ==
    /\ b - a + 1 >= 2
    /\ Cardinality({k \in a..b : DashOnly(nb[k])}) = 1
    /\ DataRows(nb, a, b) # <<>>
    /\ ~Ragged(DataRows(nb, a, b))

\* C7 as stated: every well-formed pipe table of N consecutive rows (N >= 2)
\* with one separator row results in a Table block of exactly N-1 rows, the
\* first non-separator row as header (bold), the others as data rows in
\* input order.
C7_TableHasAllDataRows ==
    \A c \in Calls :
        LET f == calls[c]
            nb == SelectSeq(InputLines(f), NonBlank)
        IN  f.pc = "build" =>
                \A a \in 1..Len(nb) : \A b \in a..Len(nb) :
                    (IsTableRun(nb, a, b) /\ WellFormedRun(nb, a, b)) =>
                        \E k \in 1..Len(f.flowables) :
                            /\ f.flowables[k].kind = "Table"
                            /\ Len(f.flowables[k].rows) = (b - a + 1) - 1
                            /\ f.flowables[k].rows =
                                   <<StyledHeader(DataRows(nb, a, b)[1])>>
                                       \o Tail(DataRows(nb, a, b))

\* k '#' characters and a space
HashPrefix(k) == [j \in 1..(k + 1) |-> IF j <= k THEN "#" ELSE " "]

HeadingStyle(k) ==
    CASE k = 1 -> "CustomH1" [] k = 2 -> "CustomH2" [] OTHER -> "CustomH3"

\* C8 as stated: a line that is not a table row gives a Heading of level k
\* exactly if it starts with k '#' characters and a space, the heading text
\* being the rest of the line; any other such line gives no Heading.
C8_HeadingIffHashPrefix ==
    \A c \in Calls :
        \A j \in 1..Len(calls[c].produced) :
            LET p == calls[c].produced[j]
            IN  (p.line # <<>> /\ ~IsTableLine(p.line)) =>
                    \A k \in 1..3 :
                        StartsWith(p.line, HashPrefix(k))
                            <=> p.blocks =
                                    <<Para(HeadingStyle(k),
                                           <<"<b>">> \o Strip(Rest(p.line, k + 1))
                                               \o <<"</b>">>,
                                           <<>>)>>

\* the number of '*' in a text
RECURSIVE Stars(_)
Stars(s) ==
    IF s = <<>> THEN 0
    ELSE (IF Head(s) = "*" THEN 1 ELSE 0) + Stars(Tail(s))

\* the only markers of the text are one stray '*' or one stray '**'
OneStrayMarker(s) ==
    \/ Stars(s) = 1
    \/ Stars(s) = 2 /\ \E p \in 1..Len(s) : DoubleAt(s, p)

\* C9 as stated: a marker without a closing marker stays literal: a body
\* line whose only marker is one stray '*' or one stray '**' comes out
\* unchanged, with no Bold and no Italic span.
C9_StrayMarkerLiteral ==
    \A c \in Calls :
        \A j \in 1..Len(calls[c].produced) :
            LET p == calls[c].produced[j]
            IN  (/\ p.blocks # <<>>
                 /\ p.blocks[1].style = "CustomBody"
                 /\ OneStrayMarker(p.line)) =>
                    /\ p.blocks[1].text = p.line
                    /\ \A t \in {"<b>", "</b>", "<i>", "</i>"} :
                           ~Contains(p.blocks[1].text, t)

\* the loop run on the same lines with every Table(...) succeeding
RECURSIVE WellFormedRun_Produced(_, _)
WellFormedRun_Produced(f, n) ==
    IF n = 0 THEN f ELSE LoopBody(WellFormedRun_Produced(f, n - 1), FALSE)

\* the frame as the loop found it
AtLoopStart(f) ==
    [f EXCEPT !.flowables = HeaderBlocks(f.name, f.location, f.language),
              !.i = 1, !.current_table_data = <<>>, !.in_table = FALSE,
              !.produced = <<>>]

\* C10: when Table(...) raises for a buffer whose rows differ in cell count,
\* that iteration appends no Table block but one body Paragraph per buffered
\* row, in order, its text the row's cells joined by " | "; the error does
\* not reach the fallback path; and every other line yields the blocks it
\* yields when the table is well-formed.
C10_MalformedTableDegrades ==
    \A c \in Calls :
        LET f == calls[c]
            ref == WellFormedRun_Produced(AtLoopStart(f), Len(f.produced)).produced
        IN  /\ f.e # "TableError"
            /\ \A j \in 1..Len(f.produced) :
                   LET p == f.produced[j]
                   IN  IF p.table_error
                       THEN /\ Ragged(p.buffered)
                            /\ Len(p.blocks) = Len(p.buffered)
                            /\ \A r \in 1..Len(p.blocks) :
                                   /\ p.blocks[r].kind = "Paragraph"
                                   /\ p.blocks[r].style = "CustomBody"
                                   /\ p.blocks[r].text =
                                          Join(p.buffered[r], <<" ", "|", " ">>)
                       ELSE p.blocks = ref[j].blocks

\* a ragged table was degraded, a later line was processed, and the primary
\* document was built
C10_Witness ==
    \E c \in Calls :
        /\ calls[c].pc = "return"
        /\ calls[c].buffer = <<"primary_pdf">>
        /\ \E j \in 1..Len(calls[c].produced) :
               /\ calls[c].produced[j].table_error
               /\ Len(calls[c].produced[j].blocks) = 2
               /\ j < Len(calls[c].produced)
               /\ calls[c].produced[j + 1].blocks # <<>>

\* the whole family of the Hindi locale is registered
FamilyRegistered ==
    \A k \in 1..Len(RegistrationSequence) : RegistrationSequence[k] \in registered

\* the call has chosen its base font
FontChosen(f) == f.base_font_name # ""

\* C11: a Hindi render takes the locale family as its base font only if all
\* three weights of the family were registered at startup; with any weight
\* missing, the render's base font is Helvetica.
C11_FamilyOnlyIfAllWeights ==
    \A c \in Calls :
        (FontChosen(calls[c]) /\ calls[c].language = "hindi") =>
            /\ calls[c].base_font_name = "NotoSansDevanagari" => FamilyRegistered
            /\ ~FamilyRegistered => calls[c].base_font_name = "Helvetica"

\* the loop state of a call with f's arguments that runs alone, after n lines
Alone(f, fonts, n) ==
    WellFormedRun_Produced(AtLoopStart(SetupStep(f, fonts)), n)

\* the blocks and the outcome of such a call after its last line
AloneAssembled(f, fonts) == AddDisclaimer(Alone(f, fonts, Len(f.lines)))

\* the block list, the table buffer, the in-table flag and the base font of f
\* are those of r
SameAssembly(f, r) ==
    /\ f.flowables = r.flowables
    /\ f.current_table_data = r.current_table_data
    /\ f.in_table = r.in_table
    /\ f.produced = r.produced
    /\ f.lines = r.lines
    /\ f.base_font_name = r.base_font_name

\* the output buffer of f holds what f's own path wrote, and nothing else
OwnOutcome(f) ==
    /\ f.error_flowables \in {<<>>, ErrorFlowables(f)}
    /\ f.pc \in {"return", "done"} /\ ~InvalidMarkdown(f.md) =>
           f.buffer = IF f.e = "" THEN <<"primary_pdf">>
                      ELSE IF f.fallback_error = "" THEN <<"fallback_pdf">>
                      ELSE <<"placeholder">>
    /\ f.pc = "done" =>
           f.response = IF InvalidMarkdown(f.md)
                        THEN Response(400, "Invalid or missing markdown_text", <<>>)
                        ELSE Response(200, "", f.buffer)

\* C12: two create_report_pdf calls interleaved in any order each produce the
\* block sequence and the outcome of the same call run alone: at every point
\* the table buffer, the in-table flag, the block list and the output buffer
\* of a call are what its own arguments and its own failures give, whatever
\* the other call has done.
C12_InterleavedAsAlone ==
    \A c \in Calls :
        LET f == calls[c]
        IN  /\ OwnOutcome(f)
            /\ f.pc = "loop" => SameAssembly(f, Alone(f, registered, f.i - 1))
            /\ (f.pc = "build" \/ (f.e = "" /\ f.builds # <<>>)) =>
                   SameAssembly(f, AloneAssembled(f, registered))
            /\ f.e # "" =>
                   \/ f.flowables = <<>> /\ f.produced = <<>>
                   \/ SameAssembly(f, Alone(f, registered, Len(f.produced)))
                   \/ SameAssembly(f, AloneAssembled(f, registered))

\* both calls are in their loops at once, each with a row of its own in its
\* table buffer and a line still to read
C12_Witness ==
    /\ \A c \in Calls :
           /\ calls[c].pc = "loop"
           /\ calls[c].in_table
           /\ calls[c].i = Len(calls[c].lines)
    /\ calls[1].current_table_data = <<<<<<"a">>>>>>
    /\ calls[2].current_table_data = <<<<<<"b">>>>>>

\* run occurs in s
HasRun(s, run) ==
    \E k \in 1..(Len(s) - Len(run) + 1) : SubSeq(s, k, k + Len(run) - 1) = run

\* the formatter finds nothing left to convert in t
NoMarkerPairLeft(t) == Emphasis(t) = t

\* the '**x**' run is there; the '*x*' run is there and is not part of it
HasBoldRun(s) == HasRun(s, <<"*", "*", "x", "*", "*">>)

HasItalicRun(s) ==
    HasRun(s, <<":", "*", "x", "*">>) \/ HasRun(s, <<" ", "*", "x", "*">>)

\* C13: the block of every non-table line, Heading and Disclaimer as well as
\* Bullet, Numbered and Plain, carries the line's text as the emphasis
\* formatter leaves it: a '**x**' run is a Bold span, a '*x*' run is an
\* Italic span, and no marker pair is left in the block text.
C13_EveryLineFormatted ==
    \A c \in Calls :
        \A j \in 1..Len(calls[c].produced) :
            LET p == calls[c].produced[j]
            IN  (NonBlank(p.line) /\ ~IsTableLine(p.line) /\ ~p.in_table) =>
                    /\ Len(p.blocks) = 1
                    /\ p.blocks[1].kind = "Paragraph"
                    /\ NoMarkerPairLeft(p.blocks[1].text)
                    /\ HasBoldRun(p.line) =>
                           HasRun(p.blocks[1].text, <<"<b>", "x", "</b>">>)
                    /\ HasItalicRun(p.line) =>
                           HasRun(p.blocks[1].text, <<"<i>", "x", "</i>">>)

====
